---- MODULE Spec2Model ----
(***************************************************************************)
(* Order-fulfilment and payment-settlement pipeline of the storefront      *)
(* backend (orders/views.py, orders/models.py, products/models.py).        *)
(*                                                                         *)
(* The database is PostgreSQL at READ COMMITTED (strive/settings.py).      *)
(* A checkout handler runs its statements one by one inside                *)
(* transaction.atomic(): each SELECT sees the rows committed at that       *)
(* moment, every INSERT/UPDATE/DELETE stays private to the transaction     *)
(* until it commits, and an UPDATE of a product row holds that row's lock  *)
(* until the transaction ends.  Leaving the atomic block with `return`     *)
(* COMMITS; only an exception rolls back.  Money is in minor units.        *)
(***************************************************************************)
EXTENDS Integers, Sequences, FiniteSets, TLC

\* ---------------------------------------------------------------- bounds
MaxStock == 2
MaxQty == 2
MaxPrice == 2
MaxRequests == 3
MaxConcurrent == 2
MaxIntents == 1
MaxCartRows == 2

Users == {1, 2}
Products == {1, 2}
\* Users whose role is admin.
Admins == {2}
Procs == {1, 2}
\* A product id that names no Product row.
NoProduct == Cardinality(Products) + 1

\* Address ids a request may carry: 0 is an absent field, address u belongs to
\* user u, and the last id names no Address row.
NoAddress == Cardinality(Users) + 1
AddressIds == {0, 1, 2, NoAddress}

\* Callback payloads a client may submit (0 and <<>> are absent fields): the
\* pair (order 1, payment 7) with its signature, with the signature of
\* another payment, and with a field missing.
\* `fault` is an exception raised inside the verification library.
Payloads ==
    {[oid |-> 1, pid |-> 7, sig |-> <<1, 7>>, fault |-> FALSE],
     [oid |-> 1, pid |-> 7, sig |-> <<1, 7>>, fault |-> TRUE],
     [oid |-> 1, pid |-> 7, sig |-> <<1, 8>>, fault |-> FALSE],
     [oid |-> 1, pid |-> 0, sig |-> <<1, 0>>, fault |-> FALSE]}

VARIABLES
    stock,      \* Product.stock_count, per product
    price,      \* Product.price, per product
    cart,       \* CartItem rows per user, in queryset order (newest first)
    orders,     \* committed Order rows with their OrderItem rows; id = index
    payments,   \* committed OrderPayment rows
    intents,    \* amounts of the payment intents created at the gateway
    workers,    \* the request workers of the deployment (fixed at start)
    catalog,    \* ids of the Product rows that exist
    req,        \* per worker: the request in flight
    lock,       \* per product: the worker whose open transaction updated it
    stock0,     \* history: the stock counts at the start
    snap,       \* history: the database when the last request began
    last,       \* history: the last request as answered (single worker only)
    nreq        \* history: number of requests begun

vars == <<stock, price, cart, orders, payments, intents, workers, catalog,
          req, lock,
          stock0, snap, last, nreq>>

\* ------------------------------------------------------------ data model
\* Order.STATUS_CHOICES
STATUS_CHOICES == {"pending", "confirmed", "shipped", "delivered", "cancelled"}

\* Order.PAYMENT_METHOD_CHOICES
PAYMENT_METHOD_CHOICES == {"cash", "upi", "card", "netbanking"}

\* Address rows: the owner of an address id, 0 when no such row exists.
AddressOwner(a) == IF a \in Users THEN a ELSE 0

\* The committed database, as one value.
DB ==
    [stock |-> stock, price |-> price, cart |-> cart, orders |-> orders,
     payments |-> payments]

NoSnap == [stock |-> <<>>, price |-> <<>>, cart |-> <<>>, orders |-> <<>>,
           payments |-> <<>>]

NoOrder == [user |-> 0, status |-> "", payment_method |-> "",
            shipping_address |-> 0, total_amount |-> 0, items |-> <<>>]

\* A worker that has handled nothing yet.  `log` is what the handler has
\* written to the process output.
IdleReq ==
    [op |-> "none", pc |-> "idle", user |-> 0, addr |-> 0, method |-> "",
     oid |-> 0, pid |-> 0, sig |-> <<>>, fault |-> FALSE, arg |-> <<>>,
     num |-> 0, payFailed |-> FALSE, items |-> <<>>, i |-> 0, order |-> NoOrder, resp |-> "",
     prod |-> 0, log |-> <<>>]

InFlight(self) == req[self].pc # "idle"

\* Variant: the quantity left out of the sum.
RECURSIVE CartTotalNoQuantity(_)
CartTotalNoQuantity(items) ==
    IF items = <<>> THEN 0
    ELSE Head(items).price + CartTotalNoQuantity(Tail(items))

\* sum(item.product.price * item.quantity for item in cart_items)
RECURSIVE CartTotal(_)
CartTotal(items) ==
    IF items = <<>> THEN 0
    ELSE Head(items).price * Head(items).quantity + CartTotal(Tail(items))

\* OrderItem.total_price summed over the items of an order
RECURSIVE ItemsTotal(_)
ItemsTotal(items) ==
    IF items = <<>> THEN 0
    ELSE Head(items).quantity * Head(items).price + ItemsTotal(Tail(items))

\* Quantity of product p on the items of one order.
RECURSIVE QtyOf(_, _)
QtyOf(items, p) ==
    IF items = <<>> THEN 0
    ELSE (IF Head(items).product = p THEN Head(items).quantity ELSE 0)
             + QtyOf(Tail(items), p)

\* razorpay's signature over "order_id|payment_id" under the key secret: the
\* HMAC is modelled by the pair it authenticates.
Sign(oid, pid) == <<oid, pid>>

\* Variant: the signature is not compared.
VerifyAnySignature(oid, pid, sig, fault) == ~fault

\* client.utility.verify_payment_signature: passes only when the submitted
\* signature is the one the secret yields and the library raised nothing.
VerifySignature(oid, pid, sig, fault) == (~fault) /\ sig = Sign(oid, pid)

\* Cart payloads of the PATCH: up to two entries {id, quantity}.
CartEntries ==
    [id : Products, quantity : 1 .. MaxQty]
        \cup {[id |-> NoProduct, quantity |-> 1]}
CartPayloads == {<<>>} \cup {<<e>> : e \in CartEntries}
                    \cup {<<e, f>> : e, f \in CartEntries}

\* ------------------------------------------------------ request inputs
\* With one worker every kind of request is tried.  With a pool of workers
\* only requests that get past validation are tried (a rejected one changes
\* nothing), to keep the interleavings of the accepted ones explorable.
Pool == Cardinality(workers) > 1

DirectAddresses(u) == IF Pool THEN {u} ELSE AddressIds
DirectMethods == IF Pool THEN {"cash"} ELSE {"cash", "bogus"}
GatewayAddresses(u) == IF Pool THEN {u, NoAddress} ELSE AddressIds
GatewayPayloads == IF Pool THEN {pl \in Payloads : pl.sig = <<1, 7>> /\ ~pl.fault}
                   ELSE Payloads

ReplacePayloads == IF Pool THEN {pl \in CartPayloads : Len(pl) <= 1}
                   ELSE CartPayloads

\* -------------------------------------------------- request bookkeeping
\* A worker takes a new request when it is not in the middle of one.
Accept(self) ==
    /\ self \in workers
    /\ ~InFlight(self)
    /\ nreq < (IF workers = {self} THEN MaxRequests ELSE MaxConcurrent)
    /\ nreq' = nreq + 1
    /\ snap' = IF workers = {self} THEN DB ELSE NoSnap

\* The request record of a handler that has just been entered.
NewReq(op, u) == [IdleReq EXCEPT !.op = op, !.user = u, !.pc = "run"]

\* The handler answers `resp`: the worker is free again.  With a single
\* worker the answered request is kept for inspection.
Answer(self, r, resp) ==
    /\ req' = [req EXCEPT ![self] = IdleReq]
    /\ last' = IF workers = {self} THEN [r EXCEPT !.pc = "done", !.resp = resp]
               ELSE IdleReq

\* The handler goes on to its next statement.
Continue(self, r) ==
    /\ req' = [req EXCEPT ![self] = r]
    /\ last' = IdleReq

Release(self) == [p \in Products |-> IF lock[p] = self THEN 0 ELSE lock[p]]

\* ---------------------------------------------- the checkout transaction
\* Lines of the cart already turned into OrderItem rows by this transaction.
Processed(r) == Len(r.order.items)

\* Products whose row this transaction has saved.
Saved(r) == {r.items[j].product : j \in 1 .. Processed(r)}

\* The cached Product instance a saved product was written back from.
SavedFrom(r, p) ==
    r.items[CHOOSE j \in 1 .. Processed(r) : r.items[j].product = p]

\* Leaving transaction.atomic() without an exception: everything the
\* transaction wrote becomes visible at once.  Foreign keys are deferred to
\* this point: an order whose shipping_address_id names no Address row makes
\* the commit fail, which rolls everything back (a 500 answer).
Commit(self, r, resp, clearCart, payRows) ==
    LET inserted == r.order # NoOrder
        fkOk == inserted => (AddressOwner(r.order.shipping_address) # 0)
    IN  /\ lock' = Release(self)
        /\ UNCHANGED <<intents, workers, catalog, stock0, snap, nreq>>
        /\ Answer(self, r, IF fkOk THEN resp ELSE "ServerError")
        /\ IF fkOk
           THEN /\ stock' = [p \in Products |->
                      IF p \in Saved(r)
                      THEN SavedFrom(r, p).stock - SavedFrom(r, p).quantity
                      ELSE stock[p]]
                /\ price' = [p \in Products |->
                      IF p \in Saved(r) THEN SavedFrom(r, p).price ELSE price[p]]
                /\ orders' = IF inserted THEN Append(orders, r.order) ELSE orders
                /\ cart' = IF clearCart THEN [cart EXCEPT ![r.user] = <<>>]
                           ELSE cart
                /\ payments' = payments \o
                      [k \in 1 .. Len(payRows) |->
                          [payRows[k] EXCEPT !.order = Len(orders) + 1]]
           ELSE UNCHANGED <<stock, price, cart, orders, payments>>

\* An exception inside transaction.atomic(): nothing of it remains.
Rollback(self, r, resp) ==
    /\ lock' = Release(self)
    /\ Answer(self, r, resp)
    /\ UNCHANGED <<stock, price, cart, orders, payments, intents, workers, catalog,
                   stock0, snap, nreq>>

\* What a step that only reads the database leaves alone.
KeepDB ==
    UNCHANGED <<stock, price, cart, orders, payments, intents, workers, catalog, lock,
                stock0>>

\* A step that touches only the worker's own request.
Local(self, r) ==
    /\ Continue(self, r)
    /\ KeepDB
    /\ UNCHANGED <<snap, nreq>>

\* CreateOrderSerializer: the address must be one of the caller's, the
\* payment method one of the choices.
SerializerValid(u, a, m) ==
    /\ a # 0
    /\ AddressOwner(a) = u
    /\ m \in PAYMENT_METHOD_CHOICES

\* CreateOrderFromCartView.post up to the atomic block.
DirectBegin(self) ==
    \E u \in Users, m \in DirectMethods : \E a \in DirectAddresses(u) :
        /\ Accept(self)
        /\ KeepDB
        /\ LET r == [NewReq("direct", u) EXCEPT !.addr = a, !.method = m]
           IN  IF SerializerValid(u, a, m)
               THEN Continue(self, [r EXCEPT !.pc = "exists"])
               ELSE Answer(self, r, "ValidationError")

\* RazorpayVerifyPaymentView.post up to the atomic block: all four fields
\* must be present, then the signature is verified.
GatewayBegin(self) ==
    \E u \in Users, pl \in GatewayPayloads : \E a \in GatewayAddresses(u) :
        /\ Accept(self)
        /\ KeepDB
        /\ LET r == [NewReq("gateway", u) EXCEPT
                        !.addr = a, !.method = "razorpay", !.oid = pl.oid,
                        !.pid = pl.pid, !.sig = pl.sig, !.fault = pl.fault]
           IN  IF pl.oid = 0 \/ pl.pid = 0 \/ pl.sig = <<>> \/ a = 0
               THEN Answer(self, r, "MissingFields")
               ELSE IF ~VerifySignature(pl.oid, pl.pid, pl.sig, pl.fault)
               THEN Answer(self, r, "PaymentVerificationFailed")
               ELSE Continue(self, [r EXCEPT !.pc = "exists"])

\* Variant: the emptiness test left out.
ExistsUnchecked(self) ==
    /\ req[self].pc = "exists"
    /\ Local(self, [req[self] EXCEPT !.pc = "load"])

\* cart_items.exists(): an empty cart answers 400 from inside the block.
Exists(self) ==
    /\ req[self].pc = "exists"
    /\ IF cart[req[self].user] = <<>>
       THEN Commit(self, req[self], "EmptyCart", FALSE, <<>>)
       ELSE Local(self, [req[self] EXCEPT !.pc = "load"])

\* The queryset is evaluated once, when the sum starts to iterate it; the
\* later loop and the sum share these rows.
LoadCart(self) ==
    /\ req[self].pc = "load"
    /\ LET rows == cart[req[self].user]
       IN  Local(self, [req[self] EXCEPT
                !.items = [k \in 1 .. Len(rows) |->
                              [product |-> rows[k].product,
                               quantity |-> rows[k].quantity,
                               price |-> 0, stock |-> 0]],
                !.i = 1,
                !.pc = IF rows = <<>> THEN "create" ELSE "product"])

\* item.product: one SELECT per cart line, cached on the line from then on.
LoadProduct(self) ==
    /\ req[self].pc = "product"
    /\ LET r == req[self]
           p == r.items[r.i].product
       IN  Local(self, [r EXCEPT
                !.items[r.i].price = price[p],
                !.items[r.i].stock = stock[p],
                !.i = IF r.i = Len(r.items) THEN 1 ELSE r.i + 1,
                !.pc = IF r.i = Len(r.items) THEN "create" ELSE "product"])

\* Order.objects.create(...) of the direct checkout.
DirectCreate(self) ==
    /\ req[self].pc = "create"
    /\ req[self].op = "direct"
    /\ LET r == req[self]
       IN  Local(self, [r EXCEPT
                !.order = [user |-> r.user, status |-> "pending",
                           payment_method |-> r.method,
                           shipping_address |-> r.addr,
                           total_amount |-> CartTotal(r.items),
                           items |-> <<>>],
                !.pc = IF r.items = <<>> THEN "finish" ELSE "line"])

\* Order.objects.create(...) of the gateway callback.
GatewayCreate(self) ==
    /\ req[self].pc = "create"
    /\ req[self].op = "gateway"
    /\ LET r == req[self]
       IN  Local(self, [r EXCEPT
                !.order = [user |-> r.user, status |-> "pending",
                           payment_method |-> "razorpay",
                           shipping_address |-> r.addr,
                           total_amount |-> CartTotal(r.items),
                           items |-> <<>>],
                !.pc = IF r.items = <<>> THEN "finish" ELSE "line"])

\* Variant: the stock test off by one.
InsufficientOffByOne(item) == item.stock < item.quantity - 1

\* The stock test of one cart line, on the cached Product instance.
Insufficient(item) == item.stock < item.quantity

\* One turn of the loop over the cart lines: an insufficient line answers 400
\* from inside the block; otherwise the OrderItem is inserted and the cached
\* product is saved with its stock lowered (the UPDATE waits for the row).
Line(self) ==
    /\ req[self].pc = "line"
    /\ LET r == req[self]
           item == r.items[r.i]
       IN  IF Insufficient(item)
           THEN Commit(self, [r EXCEPT !.prod = item.product],
                       "InsufficientStock", FALSE, <<>>)
           ELSE /\ lock[item.product] \in {0, self}
                /\ lock' = [lock EXCEPT ![item.product] = self]
                /\ Continue(self, [r EXCEPT
                       !.order.items = Append(@,
                            [product |-> item.product,
                             quantity |-> item.quantity,
                             price |-> item.price]),
                       !.i = r.i + 1,
                       !.pc = IF r.i = Len(r.items) THEN "finish" ELSE "line"])
                /\ UNCHANGED <<stock, price, cart, orders, payments, intents,
                               workers, catalog, stock0, snap, nreq>>

\* Variant: the direct checkout also writes a payment row.
DirectFinishPaying(self) ==
    /\ req[self].pc = "finish"
    /\ req[self].op = "direct"
    /\ Commit(self, req[self], "Created", TRUE,
              <<[order |-> 0, provider |-> "razorpay",
                 amount |-> req[self].order.total_amount, currency |-> "INR",
                 status |-> "captured", method |-> "upi",
                 razorpay_order_id |-> 0, razorpay_payment_id |-> 0,
                 razorpay_signature |-> <<>>]>>)

\* cart_items.delete() and the 201 answer of the direct checkout.
DirectFinish(self) ==
    /\ req[self].pc = "finish"
    /\ req[self].op = "direct"
    /\ Commit(self, req[self], "Created", TRUE, <<>>)

\* Variant: the provider ids stored in each other's column.
PaymentRowSwapped(r) ==
    [order |-> 0, provider |-> "razorpay", amount |-> r.order.total_amount,
     currency |-> "INR", status |-> "captured", method |-> "upi",
     razorpay_order_id |-> r.pid, razorpay_payment_id |-> r.oid,
     razorpay_signature |-> r.sig]

\* The OrderPayment row of the gateway callback.
PaymentRow(r) ==
    [order |-> 0, provider |-> "razorpay", amount |-> r.order.total_amount,
     currency |-> "INR", status |-> "captured", method |-> "upi",
     razorpay_order_id |-> r.oid, razorpay_payment_id |-> r.pid,
     razorpay_signature |-> r.sig]

\* cart_items.delete(), OrderPayment.objects.create(...) and the 201 answer
\* of the gateway callback.  A database error of the payment INSERT is
\* swallowed by `except Exception: pass`, but it has marked the transaction
\* for rollback: the block then rolls back and the 201 is still sent.
GatewayFinish(self) ==
    /\ req[self].pc = "finish"
    /\ req[self].op = "gateway"
    /\ \E payFails \in BOOLEAN :
          IF payFails
          THEN Rollback(self, [req[self] EXCEPT !.payFailed = TRUE], "Created")
          ELSE Commit(self, req[self], "Created", TRUE,
                      <<PaymentRow(req[self])>>)

\* A worker waiting for a product row another open transaction has updated.
Waiting(self) ==
    /\ req[self].pc = "line"
    /\ ~Insufficient(req[self].items[req[self].i])
    /\ lock[req[self].items[req[self].i].product] \notin {0, self}

\* Two transactions waiting for each other's rows: PostgreSQL aborts one.
DeadlockAbort(self) ==
    /\ Waiting(self)
    /\ LET other == lock[req[self].items[req[self].i].product]
       IN  /\ Waiting(other)
           /\ lock[req[other].items[req[other].i].product] = self
    /\ Rollback(self, req[self], "ServerError")

\* ------------------------------------------------------ other handlers
\* Variant: creating the intent also empties the cart.
RazorpayCreateOrderClearing(self) ==
    \E u \in Users :
        /\ Accept(self)
        /\ cart' = [cart EXCEPT ![u] = <<>>]
        /\ Answer(self, NewReq("create_intent", u), "GatewayUnavailable")
        /\ UNCHANGED <<stock, price, orders, payments, intents, workers, catalog, lock,
                       stock0>>

\* RazorpayCreateOrderView.post: the cart total in minor units is sent to the
\* gateway, which answers with a new provider order id or fails (502).  The
\* handler prints its progress, and the exception when there is one.
RazorpayCreateOrder(self) ==
    \E u \in Users, gatewayUp \in BOOLEAN :
        /\ Accept(self)
        /\ LET rows == cart[u]
               amount == CartTotal([k \in 1 .. Len(rows) |->
                            [quantity |-> rows[k].quantity,
                             price |-> price[rows[k].product]]])
               r == [NewReq("create_intent", u) EXCEPT !.num = amount]
           IN  IF gatewayUp /\ Len(intents) < MaxIntents
               THEN /\ intents' = Append(intents, amount)
                    /\ Answer(self, [r EXCEPT !.oid = Len(intents) + 1,
                                  !.log = <<"RZP CREATE ORDER HIT",
                                            "ORDER RESPONSE">>],
                              "IntentCreated")
               ELSE /\ UNCHANGED intents
                    /\ Answer(self, [r EXCEPT
                                  !.log = <<"RZP CREATE ORDER HIT",
                                            "RZP ERROR">>],
                              "GatewayUnavailable")
        /\ UNCHANGED <<stock, price, cart, orders, payments, workers, catalog, lock,
                       stock0>>

\* Number of CartItem rows in the table (the model keeps it small).
RECURSIVE RowsOf(_)
RowsOf(us) ==
    IF us = {} THEN 0
    ELSE LET u == CHOOSE x \in us : TRUE
         IN  Len(cart[u]) + RowsOf(us \ {u})

CartRows == RowsOf(Users)

\* Variant: no product is ever seen as already in the cart.
CartProductsUnseen(rows) == {}

\* The products of the rows of a cart.
CartProducts(rows) == {rows[k].product : k \in 1 .. Len(rows)}

\* CartListCreateView.post: CartItemSerializer accepts quantity >= 0; the
\* INSERT fails (500) on an unknown product or on a second row for the same
\* (user, product).
CartAdd(self) ==
    \E u \in Users, p \in Products \cup {NoProduct}, q \in 0 .. MaxQty :
        /\ Accept(self)
        /\ CartRows < MaxCartRows
        /\ LET r == [NewReq("cart_add", u) EXCEPT !.prod = p, !.num = q]
           IN  IF p \notin catalog \/ p \in CartProducts(cart[u])
               THEN Answer(self, r, "ServerError") /\ UNCHANGED cart
               ELSE /\ cart' = [cart EXCEPT ![u] =
                           <<[product |-> p, quantity |-> q]>> \o @]
                    /\ Answer(self, r, "Created")
        /\ UNCHANGED <<stock, price, orders, payments, intents, workers, catalog, lock,
                       stock0>>

\* CartDetailView (PUT/PATCH): the row is looked up among the caller's own by
\* its position i; CartItemSerializer accepts quantity >= 0 and an optional
\* product_id (0: absent).  The UPDATE fails (500) on an unknown product or
\* on the product of another row of the same user.
CartUpdate(self) ==
    \E u \in Users, i \in 1 .. MaxCartRows, q \in 0 .. MaxQty,
       p \in {0} \cup Products \cup {NoProduct} :
        /\ Accept(self)
        /\ LET r == [NewReq("cart_update", u) EXCEPT
                        !.i = i, !.prod = p, !.num = q]
               rows == cart[u]
               others == [k \in 1 .. Len(rows) - 1 |->
                             IF k < i THEN rows[k] ELSE rows[k + 1]]
           IN  IF i > Len(rows)
               THEN Answer(self, r, "NotFound") /\ UNCHANGED cart
               ELSE IF p \notin {0} \cup catalog \/ p \in CartProducts(others)
               THEN Answer(self, r, "ServerError") /\ UNCHANGED cart
               ELSE /\ cart' = [cart EXCEPT ![u][i] =
                           [product |-> IF p = 0 THEN rows[i].product ELSE p,
                            quantity |-> q]]
                    /\ Answer(self, r, "OK")
        /\ UNCHANGED <<stock, price, orders, payments, intents, workers, catalog, lock,
                       stock0>>

\* CartDetailView (DELETE): the caller's row at position i is deleted.
CartRemove(self) ==
    \E u \in Users, i \in 1 .. MaxCartRows :
        /\ Accept(self)
        /\ LET r == [NewReq("cart_remove", u) EXCEPT !.i = i]
               rows == cart[u]
           IN  IF i > Len(rows)
               THEN Answer(self, r, "NotFound") /\ UNCHANGED cart
               ELSE /\ cart' = [cart EXCEPT ![u] =
                           [k \in 1 .. Len(rows) - 1 |->
                               IF k < i THEN rows[k] ELSE rows[k + 1]]]
                    /\ Answer(self, r, "NoContent")
        /\ UNCHANGED <<stock, price, orders, payments, intents, workers, catalog, lock,
                       stock0>>

\* Variant: the deletion is not filtered by user.
CartClearAll(self) ==
    \E u \in Users :
        /\ Accept(self)
        /\ cart' = [w \in Users |-> <<>>]
        /\ Answer(self, NewReq("cart_clear", u), "OK")
        /\ UNCHANGED <<stock, price, orders, payments, intents, workers, catalog, lock,
                       stock0>>

\* CartClearView.delete: every row of the caller's cart is deleted.
CartClear(self) ==
    \E u \in Users :
        /\ Accept(self)
        /\ cart' = [cart EXCEPT ![u] = <<>>]
        /\ Answer(self, NewReq("cart_clear", u), "OK")
        /\ UNCHANGED <<stock, price, orders, payments, intents, workers, catalog, lock,
                       stock0>>

\* The rows the PATCH inserts, oldest first: entries whose product does not
\* exist are skipped.
RECURSIVE Resolved(_)
Resolved(entries) ==
    IF entries = <<>> THEN <<>>
    ELSE IF Head(entries).id \in catalog
    THEN <<[product |-> Head(entries).id,
            quantity |-> Head(entries).quantity]>> \o Resolved(Tail(entries))
    ELSE Resolved(Tail(entries))

RECURSIVE Reverse(_)
Reverse(seq) ==
    IF seq = <<>> THEN <<>> ELSE Append(Reverse(Tail(seq)), Head(seq))

\* UserViewSet.cart (PATCH): one transaction deletes the user's rows and
\* inserts the payload's; a second row for the same product violates the
\* unique constraint and rolls the whole replacement back (500).
ReplaceAll(self) ==
    \E u \in Users, payload \in ReplacePayloads :
        /\ Accept(self)
        /\ LET r == [NewReq("cart_replace", u) EXCEPT !.arg = payload]
               rows == Resolved(payload)
           IN  /\ \/ Len(rows) <= Len(cart[u])
                  \/ CartRows - Len(cart[u]) + Len(rows) <= MaxCartRows
               /\ IF Cardinality(CartProducts(rows)) < Len(rows)
                  THEN Answer(self, r, "ServerError") /\ UNCHANGED cart
                  ELSE /\ cart' = [cart EXCEPT ![u] = Reverse(rows)]
                       /\ Answer(self, r, "OK")
        /\ UNCHANGED <<stock, price, orders, payments, intents, workers, catalog, lock,
                       stock0>>

\* Variant: anything not yet cancelled may be cancelled.
CancellableUnlessCancelled(status) == status # "cancelled"

\* Only a pending order may be cancelled.
Cancellable(status) == status = "pending"

\* Variant: the queryset is not filtered by user.
OwnOrdersAny(u) == 1 .. Len(orders)

\* CancelOrderView.get_queryset: the ids of the caller's own orders.
OwnOrders(u) == {k \in 1 .. Len(orders) : orders[k].user = u}

\* CancelOrderView.update up to order.save(): the order is looked up among
\* the caller's own (get_object) and must be pending.
CancelOrder(self) ==
    \E u \in Users, k \in 1 .. Len(orders) + 1 :
        /\ Accept(self)
        /\ KeepDB
        /\ LET r == [NewReq("cancel", u) EXCEPT !.num = k]
           IN  IF k \notin OwnOrders(u)
               THEN Answer(self, r, "NotFound")
               ELSE IF ~Cancellable(orders[k].status)
               THEN Answer(self, r, "InvalidStateTransition")
               ELSE Continue(self, [r EXCEPT !.pc = "cancel_save"])

\* Variant: the cancellation puts the ordered quantities back on the shelf.
CancelSaveRestocking(self) ==
    /\ req[self].pc = "cancel_save"
    /\ orders' = [orders EXCEPT ![req[self].num].status = "cancelled"]
    /\ stock' = [p \in Products |->
                    stock[p] + QtyOf(orders[req[self].num].items, p)]
    /\ Answer(self, req[self], "OK")
    /\ UNCHANGED <<price, cart, payments, intents, workers, catalog, lock,
                   stock0, snap, nreq>>

\* order.status = 'cancelled'; order.save(): the row is written from the
\* instance loaded by get_object.
CancelSave(self) ==
    /\ req[self].pc = "cancel_save"
    /\ orders' = [orders EXCEPT ![req[self].num].status = "cancelled"]
    /\ Answer(self, req[self], "OK")
    /\ UNCHANGED <<stock, price, cart, payments, intents, workers, catalog, lock,
                   stock0, snap, nreq>>

\* AdminOrderUpdateSerializer.validate_status: only a delivered order refuses
\* another status.
ValidateStatus(current, value) ==
    ~(current = "delivered" /\ value # "delivered")

\* AdminOrderUpdateView.update up to perform_update: the queryset is empty
\* for a caller who is not an admin; the status must be one of the choices
\* and pass validate_status.
AdminOrderUpdate(self) ==
    \E u \in Users, k \in 1 .. Len(orders) + 1,
       v \in STATUS_CHOICES \cup {"bogus"} :
        /\ Accept(self)
        /\ KeepDB
        /\ LET r == [NewReq("status_update", u) EXCEPT
                        !.num = k, !.method = v]
           IN  IF u \notin Admins \/ k > Len(orders)
               THEN Answer(self, r, "NotFound")
               ELSE IF v \notin STATUS_CHOICES
               THEN Answer(self, r, "ValidationError")
               ELSE IF ~ValidateStatus(orders[k].status, v)
               THEN Answer(self, r, "InvalidStateTransition")
               ELSE Continue(self, [r EXCEPT !.pc = "status_save"])

\* perform_update: serializer.save() writes the validated status.
AdminOrderSave(self) ==
    /\ req[self].pc = "status_save"
    /\ orders' = [orders EXCEPT ![req[self].num].status = req[self].method]
    /\ Answer(self, req[self], "OK")
    /\ UNCHANGED <<stock, price, cart, payments, intents, workers, catalog, lock,
                   stock0, snap, nreq>>

\* AdminProductDetailView.update (partial): any authenticated user may set a
\* product's price or its stock count; the UPDATE waits for the row.
AdminProductUpdate(self) ==
    \E u \in Users, p \in Products, field \in {"price", "count"} :
      \E v \in IF field = "price" THEN 1 .. MaxPrice ELSE 0 .. MaxStock :
        /\ Accept(self)
        /\ lock[p] = 0
        /\ LET r == [NewReq("product_update", u) EXCEPT
                        !.prod = p, !.method = field, !.num = v]
           IN  IF p \notin catalog
               THEN Answer(self, r, "NotFound") /\ UNCHANGED <<price, stock>>
               ELSE /\ price' = IF field = "price"
                                 THEN [price EXCEPT ![p] = v] ELSE price
                    /\ stock' = IF field = "count"
                                 THEN [stock EXCEPT ![p] = v] ELSE stock
                    /\ Answer(self, r, "OK")
        /\ UNCHANGED <<cart, orders, payments, intents, workers, catalog, lock,
                       stock0>>

\* The rows (cart lines or order lines) that do not reference product p.
Without(rows, p) == SelectSeq(rows, LAMBDA x : x.product # p)

\* AdminProductDetailView.destroy: any authenticated user may delete a
\* product; the rows whose foreign key references it with on_delete=CASCADE
\* (cart lines and order lines) are deleted with it.
AdminProductDestroy(self) ==
    \E u \in Users, p \in Products :
        /\ Accept(self)
        /\ lock[p] = 0
        /\ LET r == [NewReq("product_destroy", u) EXCEPT !.prod = p]
           IN  IF p \notin catalog
               THEN Answer(self, r, "NotFound")
                    /\ UNCHANGED <<catalog, cart, orders>>
               ELSE /\ catalog' = catalog \ {p}
                    /\ cart' = [w \in Users |-> Without(cart[w], p)]
                    /\ orders' = [k \in 1 .. Len(orders) |->
                          [orders[k] EXCEPT !.items = Without(@, p)]]
                    /\ Answer(self, r, "NoContent")
        /\ UNCHANGED <<stock, price, payments, intents, workers, lock, stock0>>

\* ------------------------------------------------------- specifications
InitDB ==
    /\ catalog = Products
    /\ price \in [Products -> {1}]
    /\ intents = <<>>
    /\ req = [p \in Procs |-> IdleReq]
    /\ lock = [p \in Products |-> 0]
    /\ stock0 = stock
    /\ snap = NoSnap
    /\ last = IdleReq
    /\ nreq = 0

\* The statements of the two checkout handlers.
Checkout(self) ==
    \/ DirectBegin(self)
    \/ GatewayBegin(self)
    \/ Exists(self)
    \/ LoadCart(self)
    \/ LoadProduct(self)
    \/ DirectCreate(self)
    \/ GatewayCreate(self)
    \/ Line(self)
    \/ DirectFinish(self)
    \/ GatewayFinish(self)

\* Carts at the start of the concurrent runs: any rows of quantity 1.
InitCarts ==
    {<<>>} \cup {<<[product |-> p, quantity |-> 1]>> : p \in Products}
        \cup {<<[product |-> pq[1], quantity |-> 1],
                 [product |-> pq[2], quantity |-> 1]>> :
                 pq \in {x \in Products \X Products : x[1] # x[2]}}

\* A pool of workers serving checkouts, cart requests and cancellations
\* concurrently.
Init ==
    /\ stock \in [Products -> 0 .. MaxStock]
    /\ InitDB
    /\ orders = <<>>
    /\ payments = <<>>
    /\ workers = Procs
    /\ cart \in [Users -> InitCarts]

Next ==
    \E self \in Procs :
        \/ Checkout(self)
        \/ DeadlockAbort(self)
        \/ CartAdd(self)
        \/ ReplaceAll(self)
        \/ CancelOrder(self)
        \/ CancelSave(self)

Spec == Init /\ [][Next]_vars

\* The pool serving checkouts only: no cart is refilled, so two orders of one
\* user come from the same cart lines.
NextDouble ==
    \E self \in Procs :
        \/ Checkout(self)
        \/ DeadlockAbort(self)

SpecDouble == Init /\ [][NextDouble]_vars

\* One worker: requests are served one after the other.  Every product starts
\* in stock and every cart empty; catalog edits and checkouts bring stocks
\* down to 0.
InitSeq ==
    /\ stock \in [Products -> 1 .. MaxStock]
    /\ InitDB
    /\ orders = <<>>
    /\ payments = <<>>
    /\ workers = {1}
    /\ cart = [u \in Users |-> <<>>]

NextSeq ==
    \E self \in Procs :
        \/ Checkout(self)
        \/ RazorpayCreateOrder(self)
        \/ CartAdd(self)
        \/ CartClear(self)
        \/ ReplaceAll(self)
        \/ CancelOrder(self)
        \/ CancelSave(self)
        \/ AdminProductUpdate(self)

SpecSeq == InitSeq /\ [][NextSeq]_vars

\* Cart requests and direct checkouts, served one after the other.
NextCart ==
    \E self \in Procs :
        \/ CartAdd(self)
        \/ CartUpdate(self)
        \/ CartRemove(self)
        \/ CartClear(self)
        \/ ReplaceAll(self)
        \/ DirectBegin(self)
        \/ Exists(self)
        \/ LoadCart(self)
        \/ LoadProduct(self)
        \/ DirectCreate(self)
        \/ Line(self)
        \/ DirectFinish(self)

SpecCart == InitSeq /\ [][NextCart]_vars

\* Two orders as checkouts leave them: a direct one of user 1 and a gateway
\* one of user 2 with its payment record.
PlacedOrders ==
    <<[user |-> 1, status |-> "pending", payment_method |-> "cash",
       shipping_address |-> 1, total_amount |-> 1,
       items |-> <<[product |-> 1, quantity |-> 1, price |-> 1]>>],
      [user |-> 2, status |-> "pending", payment_method |-> "razorpay",
       shipping_address |-> 2, total_amount |-> 2,
       items |-> <<[product |-> 2, quantity |-> 2, price |-> 1]>>]>>

PlacedPayments ==
    <<[PaymentRow([IdleReq EXCEPT !.order = PlacedOrders[2], !.oid = 1,
                                  !.pid = 7, !.sig = Sign(1, 7)])
          EXCEPT !.order = 2]>>

InitPlaced ==
    /\ stock = [p \in Products |-> MaxStock]
    /\ InitDB
    /\ orders = PlacedOrders
    /\ payments = PlacedPayments
    /\ cart = [u \in Users |-> <<>>]

\* The handlers that write an order's status.
NextStatus ==
    \E self \in Procs :
        \/ CancelOrder(self)
        \/ CancelSave(self)
        \/ AdminOrderUpdate(self)
        \/ AdminOrderSave(self)

\* Status requests served one after the other.
InitStatus == InitPlaced /\ workers = {1}

SpecStatus == InitStatus /\ [][NextStatus]_vars

\* Placed orders while the catalogue is edited, products are deleted, carts
\* are filled and further direct checkouts run, one request after the other.
NextCatalog ==
    \E self \in Procs :
        \/ CancelOrder(self)
        \/ CancelSave(self)
        \/ AdminOrderUpdate(self)
        \/ AdminOrderSave(self)
        \/ AdminProductUpdate(self)
        \/ AdminProductDestroy(self)
        \/ CartAdd(self)
        \/ DirectBegin(self)
        \/ Exists(self)
        \/ LoadCart(self)
        \/ LoadProduct(self)
        \/ DirectCreate(self)
        \/ Line(self)
        \/ DirectFinish(self)

SpecCatalog == InitStatus /\ [][NextCatalog]_vars

\* The two phases of the gateway checkout with cart and price changes in
\* between, one request after the other; user 1 starts with rows in the cart.
InitPay ==
    /\ stock \in [Products -> {MaxStock}]
    /\ InitDB
    /\ orders = <<>>
    /\ payments = <<>>
    /\ workers = {1}
    /\ cart \in {c \in [Users -> InitCarts] : c[1] # <<>> /\ c[2] = <<>>}

NextPay ==
    \E self \in Procs :
        \/ RazorpayCreateOrder(self)
        \/ CartAdd(self)
        \/ CartUpdate(self)
        \/ ReplaceAll(self)
        \/ AdminProductUpdate(self)
        \/ GatewayBegin(self)
        \/ Exists(self)
        \/ LoadCart(self)
        \/ LoadProduct(self)
        \/ GatewayCreate(self)
        \/ Line(self)
        \/ GatewayFinish(self)

SpecPay == InitPay /\ [][NextPay]_vars

\* Status requests served concurrently by the pool of workers.
InitStatusPool == InitPlaced /\ workers = Procs

SpecStatusPool == InitStatusPool /\ [][NextStatus]_vars

\* ---------------------------------------------------------- properties
\* Quantity of product p on the items of all orders.
RECURSIVE SoldIn(_, _)
SoldIn(os, p) ==
    IF os = <<>> THEN 0 ELSE QtyOf(Head(os).items, p) + SoldIn(Tail(os), p)

\* The single worker has answered a request of kind `op`.
Answered(op) == last.pc = "done" /\ last.op = op

\* The cart lines a checkout found, as order items at the prices it found.
ExpectedItems(rows, pr) ==
    [k \in 1 .. Len(rows) |->
        [product |-> rows[k].product, quantity |-> rows[k].quantity,
         price |-> pr[rows[k].product]]]

\* Products of the cart whose line asks for more than the stock.
Short(rows, st) ==
    {rows[k].product : k \in {j \in 1 .. Len(rows) :
                                  rows[j].quantity > st[rows[j].product]}}

\* CreateOrderFromCartView.post run alone on the database db by user u with
\* address a and payment method m: its answer and what it leaves behind.  The
\* loop stops at the first line asking for more than the stock and answers
\* from inside the atomic block, which commits the order and the lines before
\* that one.
DirectUnit(db, u, a, m) ==
    LET rows == db.cart[u]
        short == {j \in 1 .. Len(rows) :
                     rows[j].quantity > db.stock[rows[j].product]}
        n == IF short = {} THEN Len(rows)
             ELSE (CHOOSE j \in short : \A i \in short : j <= i) - 1
        done == SubSeq(rows, 1, n)
        same == [prod |-> 0, cart |-> db.cart, stock |-> db.stock,
                 orders |-> db.orders]
    IN  IF ~SerializerValid(u, a, m)
        THEN [resp |-> "ValidationError"] @@ same
        ELSE IF rows = <<>>
        THEN [resp |-> "EmptyCart"] @@ same
        ELSE [resp |-> IF short = {} THEN "Created" ELSE "InsufficientStock",
              prod |-> IF short = {} THEN 0 ELSE rows[n + 1].product,
              cart |-> IF short = {} THEN [db.cart EXCEPT ![u] = <<>>]
                       ELSE db.cart,
              stock |-> [p \in Products |-> db.stock[p] - QtyOf(done, p)],
              orders |-> Append(db.orders,
                  [user |-> u, status |-> "pending", payment_method |-> m,
                   shipping_address |-> a,
                   total_amount |-> ItemsTotal(ExpectedItems(rows, db.price)),
                   items |-> ExpectedItems(done, db.price)])]

\* The callback carries all four fields and a signature that verifies.
GatewayAccepted ==
    /\ last.oid # 0 /\ last.pid # 0 /\ last.sig # <<>> /\ last.addr # 0
    /\ last.sig = <<last.oid, last.pid>>
    /\ ~last.fault

\* C1: for every product, the quantity on committed order lines never
\* exceeds the product's initial stock (checkouts running concurrently).
C1_NoOverselling == \A p \in Products : SoldIn(orders, p) <= stock0[p]

\* C2: every product's stock count is >= 0 in every reachable state, under
\* any interleaving of checkouts, cancellations and cart requests.
C2_StockNonNegative == \A p \in Products : stock[p] >= 0

\* C2 witness: two concurrent checkouts have sold more than there was, and
\* the stock counter stands at zero.
C2_Witness == \E p \in Products : SoldIn(orders, p) > stock0[p] /\ stock[p] = 0

\* C3: a direct checkout of a cart with a line asking for more than the stock
\* answers InsufficientStock naming such a product and leaves orders, order
\* lines, stock and carts as they were.
C3_DirectAllOrNothing ==
    (/\ Answered("direct")
     /\ SerializerValid(last.user, last.addr, last.method)
     /\ Short(snap.cart[last.user], snap.stock) # {})
    => /\ last.resp = "InsufficientStock"
       /\ last.prod \in Short(snap.cart[last.user], snap.stock)
       /\ orders = snap.orders
       /\ stock = snap.stock
       /\ cart = snap.cart

\* C4: a direct checkout of a non-empty cart whose lines all fit the stock,
\* with an address of the caller, succeeds; a successful direct checkout adds
\* exactly one pending order whose total is the sum of price x quantity and
\* whose lines are the cart lines at the current prices, lowers each stock by
\* the line quantity and empties the caller's cart.
C4_DirectCheckoutSuccess ==
    Answered("direct") =>
        LET u == last.user
            rows == snap.cart[u]
            lines == ExpectedItems(rows, snap.price)
        IN  /\ (/\ SerializerValid(u, last.addr, last.method)
                /\ rows # <<>>
                /\ Short(rows, snap.stock) = {}) => last.resp = "Created"
            /\ last.resp = "Created" =>
                  /\ orders = Append(snap.orders,
                        [user |-> u, status |-> "pending",
                         payment_method |-> last.method,
                         shipping_address |-> last.addr,
                         total_amount |-> ItemsTotal(lines),
                         items |-> lines])
                  /\ rows # <<>>
                  /\ stock = [p \in Products |-> snap.stock[p] - QtyOf(rows, p)]
                  /\ cart = [snap.cart EXCEPT ![u] = <<>>]
                  /\ payments = snap.payments

\* C4 witness: a two-line cart was checked out directly.
C4_Witness ==
    /\ Answered("direct")
    /\ last.resp = "Created"
    /\ Len(snap.cart[last.user]) = 2
    /\ \E p \in Products : snap.price[p] > 1

\* C5: every order's total amount equals the sum of quantity x unit price
\* over its order lines.
C5_OrderTotalsMatch ==
    \A k \in 1 .. Len(orders) :
        orders[k].total_amount = ItemsTotal(orders[k].items)

\* C6: a callback whose signature does not verify (a mismatch, or an
\* exception in the library) answers PaymentVerificationFailed and leaves
\* stock, carts, orders, order lines and payment records as they were.
C6_VerificationFirst ==
    (/\ Answered("gateway")
     /\ last.oid # 0 /\ last.pid # 0 /\ last.sig # <<>> /\ last.addr # 0
     /\ (last.fault \/ last.sig # <<last.oid, last.pid>>))
    => /\ last.resp = "PaymentVerificationFailed"
       /\ DB = snap

\* C6 witness: a forged callback was rejected while the caller had a cart
\* that could have been checked out.
C6_Witness ==
    /\ Answered("gateway")
    /\ last.resp = "PaymentVerificationFailed"
    /\ ~last.fault
    /\ cart[last.user] # <<>>
    /\ Short(cart[last.user], stock) = {}

\* C7 as stated: any direct checkout, and any callback with a valid
\* signature, made with an empty cart answers EmptyCart and adds nothing.
C7_EmptyCartAsStated ==
    (/\ last.pc = "done"
     /\ \/ last.op = "direct"
        \/ last.op = "gateway" /\ last.sig = <<last.oid, last.pid>>
              /\ last.oid # 0 /\ last.pid # 0 /\ ~last.fault
     /\ snap.cart[last.user] = <<>>)
    => /\ last.resp = "EmptyCart"
       /\ orders = snap.orders
       /\ payments = snap.payments
       /\ stock = snap.stock

\* C7 amended: a checkout that passes the validation of its request (direct:
\* an address of the caller and a valid payment method; callback: all four
\* fields and a valid signature) made with an empty cart answers EmptyCart;
\* any checkout made with an empty cart adds no order, order line or payment
\* record and changes no stock.
C7_EmptyCart ==
    (/\ last.pc = "done"
     /\ last.op \in {"direct", "gateway"}
     /\ snap.cart[last.user] = <<>>)
    => /\ DB = snap
       /\ (\/ last.op = "direct"
              /\ SerializerValid(last.user, last.addr, last.method)
           \/ last.op = "gateway" /\ GatewayAccepted)
          => last.resp = "EmptyCart"

\* C7 witness: the verified payload of a successful callback was submitted
\* again and answered EmptyCart.
C7_Witness ==
    /\ Answered("gateway")
    /\ last.resp = "EmptyCart"
    /\ Len(orders) = 1
    /\ \E k \in 1 .. Len(payments) :
          /\ payments[k].razorpay_payment_id = last.pid
          /\ payments[k].razorpay_order_id = last.oid
          /\ orders[payments[k].order].user = last.user

\* C8: creating a payment intent, whether the gateway answers or fails,
\* leaves carts, stock, orders, order lines and payment records as they were.
C8_IntentNoEffect == Answered("create_intent") => DB = snap

\* C8 witness: an intent was created for a cart with a positive total.
C8_Witness ==
    /\ Answered("create_intent")
    /\ last.resp = "IntentCreated"
    /\ last.num > 0

\* C9: a verified callback for a cart with a line asking for more than the
\* stock answers InsufficientStock naming such a product and leaves orders,
\* order lines, payment records, stock and carts as they were.
C9_GatewayAllOrNothing ==
    (/\ Answered("gateway")
     /\ GatewayAccepted
     /\ AddressOwner(last.addr) # 0
     /\ Short(snap.cart[last.user], snap.stock) # {})
    => /\ last.resp = "InsufficientStock"
       /\ last.prod \in Short(snap.cart[last.user], snap.stock)
       /\ DB = snap

\* C10: a successful callback whose payment record was persisted leaves
\* exactly one payment record for the new order: provider razorpay, status
\* captured, the order's total as amount, and the submitted ids and signature.
C10_PaymentRecord ==
    (Answered("gateway") /\ last.resp = "Created" /\ ~last.payFailed)
    => /\ Len(orders) = Len(snap.orders) + 1
       /\ payments = Append(snap.payments,
             [order |-> Len(orders), provider |-> "razorpay",
              amount |-> orders[Len(orders)].total_amount,
              currency |-> "INR", status |-> "captured", method |-> "upi",
              razorpay_order_id |-> last.oid,
              razorpay_payment_id |-> last.pid,
              razorpay_signature |-> last.sig])
       /\ Cardinality({k \in 1 .. Len(payments) :
                          payments[k].order = Len(orders)}) = 1

\* C10 witness: a callback was settled for an order with a positive total.
C10_Witness ==
    /\ Answered("gateway")
    /\ last.resp = "Created"
    /\ ~last.payFailed
    /\ orders[Len(orders)].total_amount > 0

\* C11: a callback whose payment record could not be persisted still answers
\* with the order and leaves the order with all its lines committed, every
\* stock decrement kept and the cart cleared.
C11_OrderSurvivesPaymentFailure ==
    (Answered("gateway") /\ last.payFailed)
    => LET u == last.user
           rows == snap.cart[u]
           lines == ExpectedItems(rows, snap.price)
       IN  /\ last.resp = "Created"
           /\ orders = Append(snap.orders,
                 [user |-> u, status |-> "pending",
                  payment_method |-> "razorpay",
                  shipping_address |-> last.addr,
                  total_amount |-> ItemsTotal(lines), items |-> lines])
           /\ stock = [p \in Products |-> snap.stock[p] - QtyOf(rows, p)]
           /\ cart = [snap.cart EXCEPT ![u] = <<>>]

\* C12: every failure to persist the payment record of a callback is written
\* to the log.
C12_PaymentFailureLogged ==
    (Answered("gateway") /\ last.payFailed) => last.log # <<>>

\* C13: every payment record belongs to an order of the gateway path and
\* carries a signature that verifies for its ids; a direct checkout, an intent
\* creation and a callback that is not verified add no payment record.
C13_PaymentsOnlyVerified ==
    /\ \A k \in 1 .. Len(payments) :
          /\ payments[k].order \in 1 .. Len(orders)
          /\ orders[payments[k].order].payment_method = "razorpay"
          /\ VerifySignature(payments[k].razorpay_order_id,
                             payments[k].razorpay_payment_id,
                             payments[k].razorpay_signature, FALSE)
    /\ (last.pc = "done" /\ ~(last.op = "gateway" /\ GatewayAccepted))
          => payments = snap.payments

\* C13 witness: with a payment record on file, a callback with a forged
\* signature was turned away.
C13_Witness ==
    /\ Answered("gateway")
    /\ last.resp = "PaymentVerificationFailed"
    /\ last.sig # <<last.oid, last.pid>>
    /\ payments # <<>>

\* The order a cancel request names exists and is the caller's own.
CancelOfOwn ==
    /\ Answered("cancel")
    /\ last.num \in 1 .. Len(snap.orders)
    /\ snap.orders[last.num].user = last.user

\* C14: cancelling one's order whose status is confirmed, shipped, delivered
\* or cancelled answers InvalidStateTransition and changes nothing.
C14_CancelRejected ==
    (CancelOfOwn /\ snap.orders[last.num].status # "pending")
    => /\ last.resp = "InvalidStateTransition"
       /\ DB = snap

\* C14 witness: the owner tried to cancel a shipped order.
C14_Witness ==
    /\ CancelOfOwn
    /\ snap.orders[last.num].status = "shipped"
    /\ last.resp = "InvalidStateTransition"

\* C15: cancelling one's pending order succeeds and changes only that
\* order's status: lines, total, payment records, stock and carts stay.
C15_CancelPending ==
    (CancelOfOwn /\ snap.orders[last.num].status = "pending")
    => /\ last.resp = "OK"
       /\ orders = [snap.orders EXCEPT ![last.num].status = "cancelled"]
       /\ payments = snap.payments
       /\ stock = snap.stock
       /\ price = snap.price
       /\ cart = snap.cart

\* C15 witness: a pending order that has a payment record and lines was
\* cancelled by its owner.
C15_Witness ==
    /\ CancelOfOwn
    /\ last.resp = "OK"
    /\ orders[last.num].items # <<>>
    /\ \E k \in 1 .. Len(payments) : payments[k].order = last.num

\* The status changes the order lifecycle permits.
AllowedTransitions ==
    {<<"pending", "confirmed">>, <<"confirmed", "shipped">>,
     <<"shipped", "delivered">>, <<"pending", "cancelled">>}

\* C16: every change of an order's status, by an owner's cancel or an admin's
\* status update, is pending->confirmed, confirmed->shipped,
\* shipped->delivered or pending->cancelled.
C16_OnlyAllowedTransitions ==
    [][\A k \in 1 .. Len(orders) :
          orders'[k].status # orders[k].status
          => <<orders[k].status, orders'[k].status>> \in AllowedTransitions]_vars

\* C17: an order whose status is delivered keeps that status in every later
\* state, whatever owners and admins request.
C17_DeliveredTerminal ==
    [][\A k \in 1 .. Len(orders) :
          orders[k].status = "delivered"
          => orders'[k].status = "delivered"]_vars

\* C18: no user ever has two cart lines for the same product.
C18_CartLinesUnique ==
    \A u \in Users : \A i, j \in 1 .. Len(cart[u]) :
        cart[u][i].product = cart[u][j].product => i = j

\* C18 witness: a change of a cart line's product to the product of the
\* user's other line was refused.
C18_Witness ==
    /\ Answered("cart_update")
    /\ last.resp = "ServerError"
    /\ Len(cart[last.user]) = 2
    /\ last.prod \in Products

\* C19: adding a product the user already has a line for, with quantity
\* n >= 1, succeeds and leaves that line with quantity q + n and every other
\* line as it was.
C19_AddMerges ==
    (/\ Answered("cart_add")
     /\ last.num >= 1
     /\ \E i \in 1 .. Len(snap.cart[last.user]) :
            snap.cart[last.user][i].product = last.prod)
    => /\ last.resp = "Created"
       /\ cart = [snap.cart EXCEPT ![last.user] =
             [i \in 1 .. Len(@) |->
                 IF @[i].product = last.prod
                 THEN [@[i] EXCEPT !.quantity = @ + last.num]
                 ELSE @[i]]]

\* C20: every cart line has quantity >= 1, and so has every order line.
C20_QuantityPositive ==
    /\ \A u \in Users : \A i \in 1 .. Len(cart[u]) : cart[u][i].quantity >= 1
    /\ \A k \in 1 .. Len(orders) : \A i \in 1 .. Len(orders[k].items) :
          orders[k].items[i].quantity >= 1

\* C21: replacing the cart always succeeds and leaves exactly the payload's
\* entries whose product exists, with their quantities, as the user's cart;
\* nothing else changes.
C21_ReplaceAllTotal ==
    Answered("cart_replace") =>
        LET u == last.user
            keep == {i \in 1 .. Len(last.arg) : last.arg[i].id \in catalog}
        IN  /\ last.resp = "OK"
            /\ Len(cart[u]) = Cardinality(keep)
            /\ {cart[u][j] : j \in 1 .. Len(cart[u])} =
                 {[product |-> last.arg[i].id,
                   quantity |-> last.arg[i].quantity] : i \in keep}
            /\ DB = [snap EXCEPT !.cart[u] = cart[u]]

\* C22: clearing a cart succeeds whatever the cart holds, leaves that cart
\* empty and changes nothing else, so that clearing twice is clearing once.
C22_ClearIdempotent ==
    Answered("cart_clear") =>
        /\ last.resp = "OK"
        /\ DB = [snap EXCEPT !.cart[last.user] = <<>>]

\* A cart that was already empty is cleared while another cart has lines.
C22_Witness ==
    /\ Answered("cart_clear")
    /\ last.resp = "OK"
    /\ snap.cart[last.user] = <<>>
    /\ \E w \in Users : w # last.user /\ snap.cart[w] # <<>>

\* C23: a checkout whose shipping address is not one of the caller's is
\* answered InvalidAddress and stores nothing, so every stored order ships
\* to an address of its own user.
C23_AddressOwned ==
    /\ \A k \in 1 .. Len(orders) :
          AddressOwner(orders[k].shipping_address) = orders[k].user
    /\ (Answered("direct") \/ GatewayAccepted) /\ AddressOwner(last.addr) # last.user
          => last.resp = "ValidationError" /\ DB = snap

\* C24: a stored order keeps its number, owner, payment method, address,
\* total and lines through every later step; only its status may change.
C24_AppendOnly ==
    [][\A k \in 1 .. Len(orders) :
          /\ k <= Len(orders')
          /\ [orders'[k] EXCEPT !.status = orders[k].status] = orders[k]]_vars

\* C25: a callback whose signature verified ends as the direct checkout of
\* the same caller with the same address from the same state ends: the same
\* kind of answer (naming the same product when the stock is short), the
\* same carts and stock, and the same orders apart from the payment method.
C25_SameUnitOfWork ==
    (Answered("gateway") /\ GatewayAccepted) =>
        LET d == DirectUnit(snap, last.user, last.addr, "cash")
        IN  /\ last.resp = d.resp
            /\ last.resp = "InsufficientStock" => last.prod = d.prod
            /\ cart = d.cart
            /\ stock = d.stock
            /\ Len(orders) = Len(d.orders)
            /\ \A k \in 1 .. Len(orders) :
                  /\ [orders[k] EXCEPT !.payment_method = "cash"] =
                       [d.orders[k] EXCEPT !.payment_method = "cash"]
                  /\ k > Len(snap.orders) =>
                       orders[k].payment_method = "razorpay"

\* C26: when nothing refills a cart, the checkouts of one user turn its
\* lines into order lines of at most one order, and a product's stock goes
\* down at most once for each user who ordered it (every cart line here has
\* quantity 1).
C26_DoubleSubmission ==
    /\ \A u \in Users :
          Cardinality({k \in 1 .. Len(orders) :
              orders[k].user = u /\ orders[k].items # <<>>}) <= 1
    /\ \A p \in Products :
          stock0[p] - stock[p] <=
              Cardinality({u \in Users : \E k \in 1 .. Len(orders) :
                  orders[k].user = u /\ QtyOf(orders[k].items, p) > 0})

\* C27: no two payment records carry the same provider payment id, so a
\* verified payload settles at most one order.
C27_SettledOnce ==
    \A j, k \in 1 .. Len(payments) :
        payments[j].razorpay_payment_id = payments[k].razorpay_payment_id
            => j = k

\* C28: an order created by a verified callback for a transaction id that
\* phase 1 issued has the amount of that payment intent as its total, and so
\* has its payment record.
C28_PaidAmountMatches ==
    (/\ Answered("gateway")
     /\ last.resp = "Created"
     /\ ~last.payFailed
     /\ last.oid \in 1 .. Len(intents))
    => /\ orders[Len(orders)].total_amount = intents[last.oid]
       /\ payments[Len(payments)].amount = intents[last.oid]

\* C29: with no stock edits, what a product's stock has gone down by since
\* the start is the quantity on the stored order lines for it.
C29_StockConservation ==
    \A p \in Products : stock0[p] - stock[p] = SoldIn(orders, p)

\* C30: a cancel request for an order that is not the caller's is answered
\* NotFound, a status update by a caller who is not an admin is refused, and
\* both change nothing; a status differs from what it was before the last
\* request only where that request was the owner's cancel or an admin's
\* status update of that order.
C30_StatusGuarded ==
    /\ (/\ Answered("cancel")
        /\ \/ last.num > Len(snap.orders)
           \/ snap.orders[last.num].user # last.user)
       => last.resp = "NotFound" /\ DB = snap
    /\ (Answered("status_update") /\ last.user \notin Admins)
       => last.resp = "NotFound" /\ DB = snap
    /\ \A k \in 1 .. Len(orders) :
          (snap # NoSnap /\ orders[k].status # snap.orders[k].status)
          => /\ last.pc = "done"
             /\ last.num = k
             /\ \/ last.op = "cancel" /\ orders[k].user = last.user
                \/ last.op = "status_update" /\ last.user \in Admins

\* C30 witness: a user asked to cancel a pending order of somebody else and
\* got NotFound.
C30_Witness ==
    /\ Answered("cancel")
    /\ last.resp = "NotFound"
    /\ last.num \in 1 .. Len(orders)
    /\ orders[last.num].user # last.user
    /\ orders[last.num].status = "pending"

====
